---- MODULE Spec2Model ----
(***************************************************************************)
(* Model of elektron_spice's Circuit (src/src/circuit.rs): the element     *)
(* list and its mutators, the model/include resolver get_includes, and the *)
(* netlist serializer includes/to_str.                                     *)
(*                                                                         *)
(* Strings are TLA+ strings; Len, \o, SubSeq are used on them the way the  *)
(* Rust code uses len, format!/+= and slicing (ASCII).                       *)
(***************************************************************************)
EXTENDS Integers, Sequences, FiniteSets, TLC

VARIABLES
    fs,       \* the filesystem the resolver reads: directory path -> entries
    circuit,  \* the Circuit value under construction
    added,    \* ghost: the elements handed to the add* methods, in call order
    ret,      \* the last call made on the circuit, with its arguments and result
    again     \* ghost: the last two calls were both to_str (nothing in between)

vars == <<fs, circuit, added, ret, again>>

(***************************************************************************)
(* Bounds of the model.                                                    *)
(***************************************************************************)
\* most entries of circuit.items plus circuit.subcircuits in the main specification
MaxSize == 3
\* most entries of circuit.items in the formatting specification
MaxFormatItems == 1
\* most directory entries of the varied directory in the resolver specification
MaxFiles == 2

(***************************************************************************)
(* String helpers (str::starts_with, str::contains, ASCII case folding).   *)
(***************************************************************************)
Ch(s, i) == SubSeq(s, i, i)

StartsWith(s, p) == Len(s) >= Len(p) /\ SubSeq(s, 1, Len(p)) = p

Contains(s, c) == \E i \in 1..Len(s) : Ch(s, i) = c

UpperChars == "ABCDEFGHIJKLMNOPQRSTUVWXYZ"
LowerChars == "abcdefghijklmnopqrstuvwxyz"
DigitChars == "0123456789"

ToLower(c) ==
    IF \E i \in 1..Len(UpperChars) : Ch(UpperChars, i) = c
    THEN Ch(LowerChars, CHOOSE i \in 1..Len(UpperChars) : Ch(UpperChars, i) = c)
    ELSE c

\* the character class [a-zA-Z0-9]
IsAlnum(c) ==
    \/ \E i \in 1..Len(UpperChars) : Ch(UpperChars, i) = c
    \/ \E i \in 1..Len(LowerChars) : Ch(LowerChars, i) = c
    \/ \E i \in 1..Len(DigitChars) : Ch(DigitChars, i) = c

(***************************************************************************)
(* The three regular expressions, RE_SUBCKT, RE_MODEL and RE_INCLUDE.      *)
(* Each is a case-insensitive keyword, one space, a capture group, and for *)
(* the first two one more space and .* ; a dot never matches a newline.    *)
(***************************************************************************)
KW_SUBCKT == ".subckt"
KW_MODEL == ".model"
KW_INCLUDE == ".include"

\* (?i:kw) followed by one space, matched at position p of content
KeywordAt(content, p, kw) ==
    /\ p + Len(kw) <= Len(content)
    /\ \A j \in 1..Len(kw) : ToLower(Ch(content, p + j - 1)) = Ch(kw, j)
    /\ Ch(content, p + Len(kw)) = " "

\* first index >= i whose character is not in [a-zA-Z0-9] (Len + 1 if none)
RECURSIVE AlnumEnd(_, _)
AlnumEnd(content, i) ==
    IF i <= Len(content) /\ IsAlnum(Ch(content, i))
    THEN AlnumEnd(content, i + 1)
    ELSE i

\* first index >= i holding a newline (Len + 1 if none): where .* stops
RECURSIVE LineEnd(_, _)
LineEnd(content, i) ==
    IF i <= Len(content) /\ Ch(content, i) # "\n"
    THEN LineEnd(content, i + 1)
    ELSE i

\* `(?i:kw) ([a-zA-Z0-9]*) .*` matches at position p
DirectiveAt(content, p, kw) ==
    /\ KeywordAt(content, p, kw)
    /\ LET e == AlnumEnd(content, p + Len(kw) + 1)
       IN  e <= Len(content) /\ Ch(content, e) = " "

\* group 1 of that match
DirectiveName(content, p, kw) ==
    SubSeq(content, p + Len(kw) + 1, AlnumEnd(content, p + Len(kw) + 1) - 1)

\* Regex::captures_iter: group 1 of the successive non-overlapping matches
RECURSIVE CapturesIter(_, _, _)
CapturesIter(content, kw, from) ==
    IF from > Len(content) THEN <<>>
    ELSE IF DirectiveAt(content, from, kw)
         THEN <<DirectiveName(content, from, kw)>>
              \o CapturesIter(content, kw, LineEnd(content, from))
         ELSE CapturesIter(content, kw, from + 1)

\* RE_INCLUDE.captures(&content): the first match only; group 1 is the rest
\* of the line
RECURSIVE FirstInclude(_, _)
FirstInclude(content, from) ==
    IF from > Len(content) THEN [found |-> FALSE, text |-> ""]
    ELSE IF KeywordAt(content, from, KW_INCLUDE)
         THEN [found |-> TRUE,
               text |-> SubSeq(content, from + Len(KW_INCLUDE) + 1,
                               LineEnd(content, from + Len(KW_INCLUDE) + 1) - 1)]
         ELSE FirstInclude(content, from + 1)

(***************************************************************************)
(* Directory entries the filesystems are made of.                          *)
(***************************************************************************)
File(name, content) == [name |-> name, kind |-> "file", readable |-> TRUE, content |-> content]

\* a sub-circuit header and no include directive
FileTL072 == File("TL072.lib", ".SUBCKT TL072 1 2 3\n.ENDS\n")
\* a model definition and an include directive without a path separator
FileBC547 == File("BC547.mod", ".model BC547B NPN(IS=1)\n.include bc5x7.lib\n")
FileBC5x7 == File("bc5x7.lib", ".MODEL BC556B PNP(IS=2)\n")
\* a model definition that carries the name of TL072.lib's sub-circuit
FileTL072Model == File("a.mod", ".model TL072 D(IS=3)\n")
\* two include directives, the first with a path separator
FileAmp == File("amp.lib", ".include sub/a.lib\n.include b.lib\n.subckt amp 1 2\n.ends\n")
\* an include directive whose argument is the name the file defines
FileFoo == File("foo.lib", ".model foo D\n.include foo\n")
\* a file read_to_string cannot read, and a sub-directory
FileBinary == [name |-> "bin.dat", kind |-> "file", readable |-> FALSE, content |-> ""]
SubDir == [name |-> "old", kind |-> "dir", readable |-> TRUE, content |-> ""]

EntryInputs ==
    {FileTL072, FileBC547, FileBC5x7, FileTL072Model, FileAmp, FileFoo, FileBinary, SubDir}

\* what the three expressions find in a file's content
ScanContent(content) ==
    [subckt |-> CapturesIter(content, KW_SUBCKT, 1),
     model |-> CapturesIter(content, KW_MODEL, 1),
     include |-> FirstInclude(content, 1)]

\* ScanContent of every entry, evaluated once
ContentIndex == [e \in EntryInputs |-> ScanContent(e.content)]

(***************************************************************************)
(* Paths: DirEntry::path() is the directory joined with the entry's name;  *)
(* Path::parent() drops the last component.                                *)
(***************************************************************************)
JoinPath(dir, name) ==
    IF Len(dir) > 0 /\ Ch(dir, Len(dir)) # "/" THEN dir \o "/" \o name
    ELSE dir \o name

RECURSIVE StripSlashes(_)
StripSlashes(p) ==
    IF Len(p) > 1 /\ Ch(p, Len(p)) = "/" THEN StripSlashes(SubSeq(p, 1, Len(p) - 1))
    ELSE p

RECURSIVE ParentPath(_)
ParentPath(p) ==
    IF Len(p) = 0 THEN ""
    ELSE IF Ch(p, Len(p)) = "/" THEN StripSlashes(p)
    ELSE ParentPath(SubSeq(p, 1, Len(p) - 1))

(***************************************************************************)
(* Results (Rust's Result, and a panic from unwrap()).                     *)
(***************************************************************************)
Ok(v) == [kind |-> "Ok", val |-> v]
Err(e) == [kind |-> "Err", err |-> e]
Panic(e) == [kind |-> "panic", err |-> e]

SpiceModelNotFound(key) == [error |-> "SpiceModelNotFound", arg |-> key]
UnknownCircuitElement(reference) == [error |-> "UnknownCircuitElement", arg |-> reference]
IoError(path) == [error |-> "IoError", arg |-> path]

\* HashMap::insert
MapInsert(m, k, v) == (k :> v) @@ m

EmptyMap == [x \in {} |-> ""]

(***************************************************************************)
(* Circuit::get_includes                                                   *)
(***************************************************************************)
\* the body run on a match: the key's entry, then the first include directive
MatchResult(key, filepath, caps) ==
    LET result == MapInsert(EmptyMap, key, filepath)
    IN  IF caps.found
        THEN IF ~Contains(caps.text, "/")
             THEN MapInsert(result, caps.text,
                            ParentPath(filepath) \o "/" \o caps.text)
             ELSE MapInsert(result, caps.text, caps.text)
        ELSE result

InSeq(x, s) == \E i \in 1..Len(s) : s[i] = x

\* one directory entry: "hit" with the mapping, "io" (read_to_string failed),
\* or "miss"
ScanEntry(dir, entry, key) ==
    LET filepath == JoinPath(dir, entry.name)
    IN  IF entry.kind # "file" THEN [kind |-> "miss"]
        ELSE IF ~entry.readable THEN [kind |-> "io", path |-> filepath]
        ELSE IF InSeq(key, ContentIndex[entry].subckt)
             THEN [kind |-> "hit",
                   map |-> MatchResult(key, filepath, ContentIndex[entry].include)]
        ELSE IF InSeq(key, ContentIndex[entry].model)
             THEN [kind |-> "hit",
                   map |-> MatchResult(key, filepath, ContentIndex[entry].include)]
        ELSE [kind |-> "miss"]

RECURSIVE ScanFrom(_, _, _, _, _)
ScanFrom(f, pathlist, key, p, e) ==
    IF p > Len(pathlist) THEN Err(SpiceModelNotFound(key))
    ELSE IF pathlist[p] \notin DOMAIN f THEN Panic(IoError(pathlist[p]))
    ELSE IF e > Len(f[pathlist[p]]) THEN ScanFrom(f, pathlist, key, p + 1, 1)
    ELSE LET r == ScanEntry(pathlist[p], f[pathlist[p]][e], key)
         IN  IF r.kind = "hit" THEN Ok(r.map)
             ELSE IF r.kind = "io" THEN Err(IoError(r.path))
             ELSE ScanFrom(f, pathlist, key, p, e + 1)

\* faulty variant: all files are scanned for a sub-circuit header first, and only then
\* for a model definition
RECURSIVE ScanPass(_, _, _, _, _, _)
ScanPass(f, pathlist, key, p, e, pattern) ==
    IF p > Len(pathlist) THEN Err(SpiceModelNotFound(key))
    ELSE IF pathlist[p] \notin DOMAIN f THEN Panic(IoError(pathlist[p]))
    ELSE IF e > Len(f[pathlist[p]]) THEN ScanPass(f, pathlist, key, p + 1, 1, pattern)
    ELSE LET entry == f[pathlist[p]][e]
             filepath == JoinPath(pathlist[p], entry.name)
         IN  IF entry.kind = "file" /\ ~entry.readable THEN Err(IoError(filepath))
             ELSE IF entry.kind = "file" /\ InSeq(key, ContentIndex[entry][pattern])
                  THEN Ok(MatchResult(key, filepath, ContentIndex[entry].include))
             ELSE ScanPass(f, pathlist, key, p, e + 1, pattern)

GetIncludesTwoPasses(f, pathlist, key) ==
    LET first == ScanPass(f, pathlist, key, 1, 1, "subckt")
    IN  IF first = Err(SpiceModelNotFound(key))
        THEN ScanPass(f, pathlist, key, 1, 1, "model")
        ELSE first

GetIncludes(f, pathlist, key) == ScanFrom(f, pathlist, key, 1, 1)

(***************************************************************************)
(* CircuitItem and Circuit.  subcircuits is a HashMap: it is kept as the   *)
(* sequence of its entries in the map's iteration order, which the         *)
(* language leaves unspecified and which stays fixed while the map is not  *)
(* modified.                                                               *)
(***************************************************************************)
ItemR(reference, n0, n1, value) ==
    [kind |-> "R", reference |-> reference, nodes |-> <<n0, n1>>, value |-> value]
ItemC(reference, n0, n1, value) ==
    [kind |-> "C", reference |-> reference, nodes |-> <<n0, n1>>, value |-> value]
ItemD(reference, n0, n1, value) ==
    [kind |-> "D", reference |-> reference, nodes |-> <<n0, n1>>, value |-> value]
ItemQ(reference, n0, n1, n2, value) ==
    [kind |-> "Q", reference |-> reference, nodes |-> <<n0, n1, n2>>, value |-> value]
ItemX(reference, n, value) ==
    [kind |-> "X", reference |-> reference, nodes |-> n, value |-> value]
ItemV(reference, n1, n2, value) ==
    [kind |-> "V", reference |-> reference, nodes |-> <<n1, n2>>, value |-> value]

\* Circuit::new
NewCircuit(name, pathlist) ==
    [name |-> name, pathlist |-> pathlist, items |-> <<>>, subcircuits |-> <<>>]

\* Vec::push on items
PushItem(c, item) == [c EXCEPT !.items = Append(@, item)]

\* all orderings of a finite set, as sequences
PermSeqs(S) ==
    {s \in [1..Cardinality(S) -> S] : \A i, j \in 1..Cardinality(S) : s[i] = s[j] => i = j}

SubKeys(c) == {c.subcircuits[i].key : i \in 1..Len(c.subcircuits)}

\* HashMap::insert on subcircuits: the entry for name is added or replaced;
\* every iteration order of the resulting entries is a possible outcome
SubcircuitInsert(c, name, n, nested) ==
    LET kept == {c.subcircuits[i] : i \in {j \in 1..Len(c.subcircuits) :
                                            c.subcircuits[j].key # name}}
        entries == kept \cup {[key |-> name, nodes |-> n, circuit |-> nested]}
    IN  {[c EXCEPT !.subcircuits = s] : s \in PermSeqs(entries)}

(***************************************************************************)
(* Circuit::set_value                                                      *)
(***************************************************************************)
SettableKinds == {"R", "C", "D", "V"}

\* faulty variant: the Q and X arms compare the reference too
SetValueMatchesAnyKind(item, reference) == item.reference = reference

\* the match arms: R, C, D and V compare the reference, Q and X do nothing
SetValueMatches(item, reference) ==
    item.kind \in SettableKinds /\ item.reference = reference

\* faulty variant: the loop does not return at the first match
SetValueEveryMatch(c, reference, value, i) ==
    LET hits == {k \in i..Len(c.items) : c.items[k].kind \in SettableKinds
                                            /\ c.items[k].reference = reference}
    IN  IF hits = {} THEN [circuit |-> c, res |-> Err(UnknownCircuitElement(reference))]
        ELSE [circuit |-> [c EXCEPT !.items =
                              [k \in 1..Len(c.items) |->
                                  IF k \in hits THEN [c.items[k] EXCEPT !.value = value]
                                  ELSE c.items[k]]],
              res |-> Ok("unit")]

RECURSIVE SetValueFrom(_, _, _, _)
SetValueFrom(c, reference, value, i) ==
    IF i > Len(c.items) THEN [circuit |-> c, res |-> Err(UnknownCircuitElement(reference))]
    ELSE IF SetValueMatches(c.items[i], reference)
         THEN [circuit |-> [c EXCEPT !.items[i].value = value], res |-> Ok("unit")]
         ELSE SetValueFrom(c, reference, value, i + 1)

SetValueCall(c, reference, value) == SetValueFrom(c, reference, value, 1)

(***************************************************************************)
(* Circuit::includes                                                       *)
(***************************************************************************)
\* the loop over items: Ok(the includes map) or the panic of the first
\* get_includes(..).unwrap() that fails
RECURSIVE IncludesFrom(_, _, _, _)
IncludesFrom(f, c, i, includes) ==
    IF i > Len(c.items) THEN Ok(includes)
    ELSE LET item == c.items[i]
         IN  IF /\ item.kind \in {"X", "Q"}
                /\ item.value \notin DOMAIN includes
                /\ item.value \notin SubKeys(c)
             THEN LET incs == GetIncludes(f, c.pathlist, item.value)
                  IN  IF incs.kind = "Ok"
                      THEN IncludesFrom(f, c, i + 1, includes @@ incs.val)
                      ELSE Panic(incs.err)
             ELSE IncludesFrom(f, c, i + 1, includes)

IncludeLine(v) == ".include " \o v \o "\n"

\* the result vector: one line per map entry, in any iteration order of the
\* freshly built map
IncludesCall(f, c) ==
    LET m == IncludesFrom(f, c, 1, EmptyMap)
    IN  IF m.kind = "Ok"
        THEN {Ok([i \in 1..Len(order) |-> IncludeLine(m.val[order[i]])]) :
                  order \in PermSeqs(DOMAIN m.val)}
        ELSE {m}

(***************************************************************************)
(* Circuit::to_str                                                         *)
(***************************************************************************)
RECURSIVE JoinStrings(_, _)
JoinStrings(strs, sep) ==
    IF Len(strs) = 0 THEN ""
    ELSE IF Len(strs) = 1 THEN strs[1]
    ELSE strs[1] \o sep \o JoinStrings(Tail(strs), sep)

\* the X arm's loop: every node followed by a space
RECURSIVE NodesText(_)
NodesText(n) == IF Len(n) = 0 THEN "" ELSE n[1] \o " " \o NodesText(Tail(n))

\* faulty variant: every arm checks for the letter before it prepends it
FormatItemAllConditional(item) ==
    (IF StartsWith(item.reference, item.kind) THEN "" ELSE item.kind)
        \o item.reference \o " "
        \o (IF item.kind = "X" THEN NodesText(item.nodes)
            ELSE JoinStrings(item.nodes, " ") \o " ")
        \o item.value

\* the match arms of the loop over items
FormatItem(item) ==
    CASE item.kind = "R" ->
           IF StartsWith(item.reference, "R")
           THEN item.reference \o " " \o item.nodes[1] \o " " \o item.nodes[2] \o " " \o item.value
           ELSE "R" \o item.reference \o " " \o item.nodes[1] \o " " \o item.nodes[2] \o " " \o item.value
      [] item.kind = "C" ->
           IF StartsWith(item.reference, "C")
           THEN item.reference \o " " \o item.nodes[1] \o " " \o item.nodes[2] \o " " \o item.value
           ELSE "C" \o item.reference \o " " \o item.nodes[1] \o " " \o item.nodes[2] \o " " \o item.value
      [] item.kind = "D" ->
           IF StartsWith(item.reference, "D")
           THEN item.reference \o " " \o item.nodes[1] \o " " \o item.nodes[2] \o " " \o item.value
           ELSE "D" \o item.reference \o " " \o item.nodes[1] \o " " \o item.nodes[2] \o " " \o item.value
      [] item.kind = "Q" ->
           "Q" \o item.reference \o " " \o item.nodes[1] \o " " \o item.nodes[2] \o " "
               \o item.nodes[3] \o " " \o item.value
      [] item.kind = "X" ->
           "X" \o item.reference \o " " \o NodesText(item.nodes) \o item.value
      [] item.kind = "V" ->
           "V" \o item.reference \o " " \o item.nodes[1] \o " " \o item.nodes[2] \o " " \o item.value

\* faulty variant: the items are walked from the last to the first
ItemLinesReversed(c) ==
    [i \in 1..Len(c.items) |-> FormatItem(c.items[Len(c.items) + 1 - i])]

ItemLines(c) == [i \in 1..Len(c.items) |-> FormatItem(c.items[i])]

SubcktLine(key, nodes) == ".subckt " \o key \o " " \o JoinStrings(nodes, " ")

EndLines(close) == IF close THEN <<".end">> ELSE <<>>

\* faulty variant: the nested to_str is asked to close its lines too
NestedCloseTrue == TRUE

\* the closing argument handed to the nested to_str
NestedClose == FALSE

\* res.append / res.push after an earlier part: a panic in the earlier part
\* ends the call, else a panic in the later part does
Chain(A, B) ==
    {IF a.kind # "Ok" THEN a
     ELSE IF b.kind # "Ok" THEN b
     ELSE Ok(a.val \o b.val) : a \in A, b \in B}

\* the lines in the order to_str pushes them, given the outcomes of each part
Assemble(incs, blocks, items, end) == Chain(Chain(Chain(incs, blocks), items), end)

RECURSIVE ToStr(_, _, _)

\* the body of the loop over subcircuits, for the entries of subs from i on
RECURSIVE BlocksOf(_, _, _)
BlocksOf(f, subs, i) ==
    IF i > Len(subs) THEN {Ok(<<>>)}
    ELSE LET e == subs[i]
             block == Chain(Chain({Ok(<<SubcktLine(e.key, e.nodes)>>)},
                                  ToStr(f, e.circuit, NestedClose)),
                            {Ok(<<".ends">>)})
         IN  Chain(block, BlocksOf(f, subs, i + 1))

\* faulty variant: the entries are copied to a new map before the loop, whose
\* iteration order is its own
SubcircuitBlocksAnyOrder(f, c) ==
    UNION {BlocksOf(f, s, 1) :
               s \in PermSeqs({c.subcircuits[i] : i \in 1..Len(c.subcircuits)})}

\* the loop over subcircuits: the map is iterated in its own order
SubcircuitBlocks(f, c) == BlocksOf(f, c.subcircuits, 1)

\* every outcome of to_str(close): Ok(lines), or the panic of an unwrap()
ToStr(f, c, close) ==
    Assemble(IncludesCall(f, c), SubcircuitBlocks(f, c),
             {Ok(ItemLines(c))}, {Ok(EndLines(close))})

(***************************************************************************)
(* Inputs: filesystems, search paths, names.                               *)
(***************************************************************************)
SpiceDir == "files/spice/"
LibDir == "lib"
MissingDir == "nowhere"

\* directory listings of at most MaxFiles distinct entries, in any order
Listings ==
    UNION {{s \in [1..n -> EntryInputs] : \A i, j \in 1..n : s[i] = s[j] => i = j} :
               n \in 0..MaxFiles}

FsInputs == {(SpiceDir :> l) @@ (LibDir :> <<FileFoo, FileTL072>>) : l \in Listings}

PathListInputs ==
    {<<SpiceDir>>, <<SpiceDir, LibDir>>, <<LibDir, SpiceDir>>, <<SpiceDir, MissingDir>>}

KeyInputs == {"TL072", "BC547B", "BC556B", "amp", "foo", "NOPE"}

\* the filesystem and search path of the main specification
DefaultFs == (SpiceDir :> <<FileTL072, FileBC547, FileBC5x7>>)
DefaultPathList == <<SpiceDir>>

(***************************************************************************)
(* Calls: every action records the call it models in ret.                  *)
(***************************************************************************)
Call(op, args, res) == [op |-> op, args |-> args, res |-> res]

NoArgs == [none |-> TRUE]

\* resistor, capacitor, diode, bjt, circuit, voltage: push one item
AddItem(op, item) ==
    /\ circuit' = PushItem(circuit, item)
    /\ added' = Append(added, item)
    /\ ret' = Call(op, [item |-> item], Ok("unit"))
    /\ again' = FALSE
    /\ UNCHANGED fs

Resistor(reference, n0, n1, value) == AddItem("resistor", ItemR(reference, n0, n1, value))
Capacitor(reference, n0, n1, value) == AddItem("capacitor", ItemC(reference, n0, n1, value))
Diode(reference, n0, n1, value) == AddItem("diode", ItemD(reference, n0, n1, value))
Bjt(reference, n0, n1, n2, value) == AddItem("bjt", ItemQ(reference, n0, n1, n2, value))
CircuitInstance(reference, n, value) == AddItem("circuit", ItemX(reference, n, value))
Voltage(reference, n1, n2, value) == AddItem("voltage", ItemV(reference, n1, n2, value))

\* subcircuit(name, n, circuit)
Subcircuit(name, n, nested) ==
    /\ circuit' \in SubcircuitInsert(circuit, name, n, nested)
    /\ ret' = Call("subcircuit", [name |-> name], Ok("unit"))
    /\ again' = FALSE
    /\ UNCHANGED <<fs, added>>

\* set_value(reference, value)
SetValue(reference, value) ==
    LET r == SetValueCall(circuit, reference, value)
    IN  /\ circuit' = r.circuit
        /\ ret' = Call("set_value", [reference |-> reference, value |-> value], r.res)
        /\ again' = FALSE
        /\ UNCHANGED <<fs, added>>

\* to_str(close), as save, tran and ac call it
Render(close) ==
    /\ \E r \in ToStr(fs, circuit, close) :
           ret' = Call("to_str", [close |-> close], r)
    /\ again' = (ret.op = "to_str")
    /\ UNCHANGED <<fs, circuit, added>>

\* get_includes(key), as the test load_model calls it
Resolve(key) ==
    /\ ret' = Call("get_includes", [key |-> key], GetIncludes(fs, circuit.pathlist, key))
    /\ again' = FALSE
    /\ UNCHANGED <<fs, circuit, added>>

(***************************************************************************)
(* The main specification: a circuit is built, patched and rendered.       *)
(***************************************************************************)
\* nested circuits handed to subcircuit(): a resistor; a transistor with an
\* external model; a circuit with a sub-circuit of its own and an instance
\* of it
NestedR == PushItem(NewCircuit("r", DefaultPathList), ItemR("1", "in", "out", "1k"))
NestedQ == PushItem(NewCircuit("q", DefaultPathList), ItemQ("1", "out", "in", "0", "BC547B"))
NestedDeep ==
    PushItem(CHOOSE c \in SubcircuitInsert(NewCircuit("deep", DefaultPathList),
                                           "inner", <<"p", "n">>, NestedR) : TRUE,
             ItemX("1", <<"in", "out">>, "inner"))

NestedInputs == {NestedQ, NestedDeep}
SubNameInputs == {"amp", "buf"}
SubNodes == <<"in", "out">>

SetRefInputs == {"1", "2", "9"}
SetValueInputs == {"47"}

Size(c) == Len(c.items) + Len(c.subcircuits)

Init ==
    /\ fs = DefaultFs
    /\ circuit = NewCircuit("test", DefaultPathList)
    /\ added = <<>>
    /\ ret = Call("new", NoArgs, Ok("unit"))
    /\ again = FALSE

Next ==
    \/ Size(circuit) < MaxSize /\ Resistor("1", "a", "b", "10k")
    \/ Size(circuit) < MaxSize /\ Capacitor("1", "a", "0", "1u")
    \/ Size(circuit) < MaxSize /\ Diode("2", "a", "b", "D1N4148")
    \/ Size(circuit) < MaxSize /\ Voltage("2", "a", "0", "5")
    \/ Size(circuit) < MaxSize /\ \E m \in {"BC547B", "NOPE"} : Bjt("1", "c", "b", "e", m)
    \/ Size(circuit) < MaxSize /\ \E m \in {"TL072", "amp"} : CircuitInstance("2", <<"a", "b">>, m)
    \/ \E name \in SubNameInputs, nested \in NestedInputs :
           /\ Size(circuit) < MaxSize \/ name \in SubKeys(circuit)
           /\ Subcircuit(name, SubNodes, nested)
    \/ \E reference \in SetRefInputs, value \in SetValueInputs : SetValue(reference, value)
    \/ \E close \in BOOLEAN : Render(close)

Spec == Init /\ [][Next]_vars

(***************************************************************************)
(* The resolver specification: get_includes over varied filesystems.       *)
(***************************************************************************)
InitResolve ==
    /\ fs \in FsInputs
    /\ \E pathlist \in PathListInputs : circuit = NewCircuit("test", pathlist)
    /\ added = <<>>
    /\ ret = Call("new", NoArgs, Ok("unit"))
    /\ again = FALSE

NextResolve == \E key \in KeyInputs : Resolve(key)

SpecResolve == InitResolve /\ [][NextResolve]_vars

(***************************************************************************)
(* The formatting specification: one element of any kind and reference.    *)
(***************************************************************************)
FormatRefInputs == {"", "1", "R1", "C1", "D1", "Q1", "X1", "V1", "r1"}

NextFormat ==
    \/ /\ Len(circuit.items) < MaxFormatItems
       /\ \E reference \in FormatRefInputs :
              \/ Resistor(reference, "a", "b", "10k")
              \/ Capacitor(reference, "a", "0", "1u")
              \/ Diode(reference, "a", "b", "D1N4148")
              \/ Bjt(reference, "c", "b", "e", "BC547B")
              \/ CircuitInstance(reference, <<"a", "b", "c">>, "TL072")
              \/ Voltage(reference, "a", "0", "5")
    \/ \E close \in BOOLEAN : Render(close)

SpecFormat == Init /\ [][NextFormat]_vars

(***************************************************************************)
(* Reading a rendered line sequence back.                                  *)
(***************************************************************************)
Rendered == ret.op = "to_str" /\ ret.res.kind = "Ok"

IsIncludeLine(l) == StartsWith(l, ".include ")
IsSubcktLine(l) == StartsWith(l, ".subckt ")
IsEndsLine(l) == l = ".ends"
IsEndLine(l) == l = ".end"
IsElementLine(l) == Len(l) > 0 /\ Ch(l, 1) # "."

\* the element lines outside every .subckt ... .ends block, from line i on,
\* d blocks being open
RECURSIVE OwnElementsFrom(_, _, _)
OwnElementsFrom(lines, i, d) ==
    IF i > Len(lines) THEN <<>>
    ELSE IF IsSubcktLine(lines[i]) THEN OwnElementsFrom(lines, i + 1, d + 1)
    ELSE IF IsEndsLine(lines[i]) THEN OwnElementsFrom(lines, i + 1, d - 1)
    ELSE IF d = 0 /\ IsElementLine(lines[i])
         THEN <<lines[i]>> \o OwnElementsFrom(lines, i + 1, d)
    ELSE OwnElementsFrom(lines, i + 1, d)

OwnElements(lines) == OwnElementsFrom(lines, 1, 0)

\* the text before the first space, and the text after the last one
RECURSIVE FirstField(_)
FirstField(l) ==
    IF Len(l) = 0 \/ Ch(l, 1) = " " THEN "" ELSE Ch(l, 1) \o FirstField(Tail(l))

RECURSIVE LastField(_)
LastField(l) ==
    IF Len(l) = 0 \/ Ch(l, Len(l)) = " " THEN ""
    ELSE LastField(SubSeq(l, 1, Len(l) - 1)) \o Ch(l, Len(l))

NotInclude(l) == ~IsIncludeLine(l)
WithoutIncludes(lines) == SelectSeq(lines, NotInclude)

\* the elements set_value may patch, as the specification lists them
Patchable(item, reference) ==
    item.kind \in {"R", "C", "D", "V"} /\ item.reference = reference

HasPatchable(c, reference) == \E i \in 1..Len(c.items) : Patchable(c.items[i], reference)

FirstPatchable(c, reference) ==
    CHOOSE i \in 1..Len(c.items) :
        /\ Patchable(c.items[i], reference)
        /\ \A j \in 1..(i - 1) : ~Patchable(c.items[j], reference)

(***************************************************************************)
(* C1: a render emits exactly one element line per element added, and the  *)
(* i-th own element line (include lines and sub-circuit blocks left out)   *)
(* is the formatted line of the i-th added element, whatever set_value and *)
(* subcircuit calls came in between.                                       *)
(***************************************************************************)
C1_OneLinePerElement ==
    /\ Len(circuit.items) = Len(added)
    /\ \A i \in 1..Len(added) : [circuit.items[i] EXCEPT !.value = added[i].value] = added[i]
    /\ Rendered =>
          LET own == OwnElements(ret.res.val)
          IN  /\ Len(own) = Len(added)
              /\ \A i \in 1..Len(added) : own[i] = FormatItem(circuit.items[i])

C1_Witness ==
    /\ Rendered
    /\ Len(added) = 2
    /\ added[1].kind # added[2].kind
    /\ Len(circuit.subcircuits) = 1
    /\ \E i \in 1..2 : circuit.items[i].value # added[i].value
    /\ \E i \in 1..Len(ret.res.val) : IsIncludeLine(ret.res.val[i])

(***************************************************************************)
(* C2: a successful set_value(reference, v) changes only the value of the  *)
(* first R, C, D or V element with that reference and nothing else of the  *)
(* circuit, and a render that follows shows v as the last field of that    *)
(* element's line.                                                         *)
(***************************************************************************)
C2_SetValueStep ==
    (ret'.op = "set_value" /\ ret'.res.kind = "Ok") =>
        /\ HasPatchable(circuit, ret'.args.reference)
        /\ circuit' = [circuit EXCEPT
                          !.items[FirstPatchable(circuit, ret'.args.reference)].value =
                              ret'.args.value]
        /\ added' = added /\ fs' = fs

C2_RenderAfterSetValue ==
    (ret.op = "set_value" /\ ret.res.kind = "Ok" /\ ret'.op = "to_str" /\ ret'.res.kind = "Ok") =>
        LastField(OwnElements(ret'.res.val)[FirstPatchable(circuit, ret.args.reference)])
            = ret.args.value

C2_SetValueFrame == [][C2_SetValueStep /\ C2_RenderAfterSetValue]_vars

C2_Witness ==
    /\ ret.op = "set_value" /\ ret.res.kind = "Ok"
    /\ \E i, j \in 1..Len(circuit.items) :
           /\ i < j
           /\ Patchable(circuit.items[i], ret.args.reference)
           /\ Patchable(circuit.items[j], ret.args.reference)
           /\ circuit.items[i].value = ret.args.value
           /\ circuit.items[j].value # ret.args.value
    /\ Len(circuit.subcircuits) > 0

(***************************************************************************)
(* C3: set_value(reference, v) fails, with UnknownCircuitElement of the    *)
(* reference, exactly when no R, C, D or V element carries the reference   *)
(* (a Q or X element carrying it does not count), and a failed call leaves *)
(* the circuit as it was.                                                  *)
(***************************************************************************)
C3_SetValueStep ==
    (ret'.op = "set_value") =>
        /\ ret'.res.kind \in {"Ok", "Err"}
        /\ (ret'.res.kind = "Err") <=> ~HasPatchable(circuit, ret'.args.reference)
        /\ (ret'.res.kind = "Err") =>
               /\ ret'.res = Err(UnknownCircuitElement(ret'.args.reference))
               /\ circuit' = circuit /\ added' = added /\ fs' = fs

C3_SetValueFailure == [][C3_SetValueStep]_vars

C3_Witness ==
    /\ ret.op = "set_value" /\ ret.res.kind = "Err"
    /\ \E i \in 1..Len(circuit.items) :
           circuit.items[i].kind \in {"Q", "X"} /\ circuit.items[i].reference = ret.args.reference

(***************************************************************************)
(* C4: the reference a render emits is the stored reference with the       *)
(* element's letter in front; only for R, C and D is the letter left out   *)
(* when the stored reference already starts with it.                       *)
(***************************************************************************)
EmittedReference(item) ==
    IF item.kind \in {"R", "C", "D"} /\ Len(item.reference) > 0
          /\ Ch(item.reference, 1) = item.kind
    THEN item.reference
    ELSE item.kind \o item.reference

C4_PrefixRule ==
    Rendered =>
        LET own == OwnElements(ret.res.val)
        IN  /\ Len(own) = Len(circuit.items)
            /\ \A i \in 1..Len(own) : FirstField(own[i]) = EmittedReference(circuit.items[i])

C4_Witness ==
    /\ Rendered
    /\ \E i \in 1..Len(circuit.items) :
           /\ circuit.items[i].kind = "V"
           /\ circuit.items[i].reference = "V1"
           /\ FirstField(OwnElements(ret.res.val)[i]) = "VV1"

(***************************************************************************)
(* The search order of the resolver, and what a file defines.              *)
(***************************************************************************)
\* the directory entries in the order the search paths list them, up to the
\* first search path that is no directory
RECURSIVE SearchOrderFrom(_, _, _)
SearchOrderFrom(f, pathlist, p) ==
    IF p > Len(pathlist) \/ pathlist[p] \notin DOMAIN f THEN <<>>
    ELSE [i \in 1..Len(f[pathlist[p]]) |-> [dir |-> pathlist[p], entry |-> f[pathlist[p]][i]]]
             \o SearchOrderFrom(f, pathlist, p + 1)

SearchOrder == SearchOrderFrom(fs, circuit.pathlist, 1)

AllPathsExist == \A p \in 1..Len(circuit.pathlist) : circuit.pathlist[p] \in DOMAIN fs

HasSubckt(e, key) == e.kind = "file" /\ e.readable /\ InSeq(key, ContentIndex[e].subckt)
HasModel(e, key) == e.kind = "file" /\ e.readable /\ InSeq(key, ContentIndex[e].model)
Defines(e, key) == HasSubckt(e, key) \/ HasModel(e, key)
Unreadable(e) == e.kind = "file" /\ ~e.readable

\* the first index at which a sequence of booleans holds TRUE
FirstTrue(b) == CHOOSE i \in 1..Len(b) : b[i] /\ \A j \in 1..(i - 1) : ~b[j]

SubcktAt(key) == [i \in 1..Len(SearchOrder) |-> HasSubckt(SearchOrder[i].entry, key)]
ModelAt(key) == [i \in 1..Len(SearchOrder) |-> HasModel(SearchOrder[i].entry, key)]
DefinedAt(key) == [i \in 1..Len(SearchOrder) |-> Defines(SearchOrder[i].entry, key)]
StopsAt(key) ==
    [i \in 1..Len(SearchOrder) |->
        Defines(SearchOrder[i].entry, key) \/ Unreadable(SearchOrder[i].entry)]

EntryPath(x) == JoinPath(x.dir, x.entry.name)

\* the first include argument of the file is the name looked up
IncludesItself(e, key) ==
    e.kind = "file" /\ e.readable /\ ContentIndex[e].include.found
        /\ ContentIndex[e].include.text = key

(***************************************************************************)
(* C5 as stated: get_includes(key) maps key to the first file, in search   *)
(* order, with a sub-circuit header naming key whenever any file has one,  *)
(* and to the first file with a model definition naming key only when no   *)
(* file has such a header.  (Stated for search paths that all exist, with  *)
(* every file readable and no include argument equal to key.)              *)
(***************************************************************************)
C5_SubcktBeforeModel ==
    (/\ ret.op = "get_includes"
     /\ AllPathsExist
     /\ \A i \in 1..Len(SearchOrder) :
            ~Unreadable(SearchOrder[i].entry) /\ ~IncludesItself(SearchOrder[i].entry, ret.args.key)) =>
        LET key == ret.args.key
            anySub == \E i \in 1..Len(SearchOrder) : SubcktAt(key)[i]
            anyMod == \E i \in 1..Len(SearchOrder) : ModelAt(key)[i]
        IN  /\ anySub =>
                  /\ ret.res.kind = "Ok"
                  /\ ret.res.val[key] = EntryPath(SearchOrder[FirstTrue(SubcktAt(key))])
            /\ (~anySub /\ anyMod) =>
                  /\ ret.res.kind = "Ok"
                  /\ ret.res.val[key] = EntryPath(SearchOrder[FirstTrue(ModelAt(key))])

(***************************************************************************)
(* C5 amended: get_includes(key) maps key to the first file, in search     *)
(* order, that has a sub-circuit header or a model definition naming key:  *)
(* the two patterns are tried file by file, so a model definition in an    *)
(* earlier file wins over a sub-circuit header in a later one.  This holds *)
(* when the search paths exist and no file before that one is unreadable;  *)
(* when the file's first include argument is key itself, key is mapped to  *)
(* the include's target instead.                                           *)
(***************************************************************************)
C5_FirstDefiningFile ==
    LET key == ret.args.key
    IN  (/\ ret.op = "get_includes"
         /\ AllPathsExist
         /\ \E i \in 1..Len(SearchOrder) : DefinedAt(key)[i]
         /\ FirstTrue(StopsAt(key)) = FirstTrue(DefinedAt(key))) =>
            LET x == SearchOrder[FirstTrue(DefinedAt(key))]
            IN  /\ ret.res.kind = "Ok"
                /\ key \in DOMAIN ret.res.val
                /\ ret.res.val[key] =
                       IF IncludesItself(x.entry, key)
                       THEN IF Contains(key, "/") THEN key
                            ELSE StripSlashes(x.dir) \o "/" \o key
                       ELSE EntryPath(x)

C5_Witness ==
    /\ ret.op = "get_includes" /\ ret.res.kind = "Ok"
    /\ AllPathsExist
    /\ \E i, j \in 1..Len(SearchOrder) :
           /\ i < j
           /\ HasModel(SearchOrder[i].entry, ret.args.key)
           /\ HasSubckt(SearchOrder[j].entry, ret.args.key)
           /\ \A k \in 1..(j - 1) : ~HasSubckt(SearchOrder[k].entry, ret.args.key)
           /\ \A k \in 1..(i - 1) : ~HasModel(SearchOrder[k].entry, ret.args.key)
                                        /\ ~Unreadable(SearchOrder[k].entry)
           /\ ret.res.val[ret.args.key] = EntryPath(SearchOrder[i])

(***************************************************************************)
(* C6 as stated: when an X or Q element names something that is no local   *)
(* sub-circuit and that no file on the search paths defines, to_str        *)
(* returns the error SpiceModelNotFound of that name: it neither panics    *)
(* nor returns lines.                                                      *)
(***************************************************************************)
Unresolved(c) ==
    {c.items[i].value : i \in {j \in 1..Len(c.items) :
        /\ c.items[j].kind \in {"X", "Q"}
        /\ c.items[j].value \notin SubKeys(c)
        /\ GetIncludes(fs, c.pathlist, c.items[j].value)
               = Err(SpiceModelNotFound(c.items[j].value))}}

C6_ModelNotFoundReturned ==
    (ret.op = "to_str" /\ Unresolved(circuit) # {}) =>
        /\ ret.res.kind = "Err"
        /\ ret.res.err.error = "SpiceModelNotFound"
        /\ ret.res.err.arg \in Unresolved(circuit)

(***************************************************************************)
(* C7 as stated: a successful get_includes(key) returns the entry key ->   *)
(* path of the defining file, plus, for the first include directive of     *)
(* that file only, argument -> argument when the argument has a path       *)
(* separator and argument -> directory/argument when it has none; without  *)
(* an include directive the mapping has the one key.                       *)
(***************************************************************************)
IncludeTarget(x, text) ==
    IF Contains(text, "/") THEN text ELSE StripSlashes(x.dir) \o "/" \o text

C7_KeyAndFirstInclude ==
    (ret.op = "get_includes" /\ ret.res.kind = "Ok") =>
        LET key == ret.args.key
            x == SearchOrder[FirstTrue(DefinedAt(key))]
            inc == ContentIndex[x.entry].include
        IN  /\ key \in DOMAIN ret.res.val
            /\ ret.res.val[key] = EntryPath(x)
            /\ IF inc.found
               THEN /\ DOMAIN ret.res.val = {key, inc.text}
                    /\ ret.res.val[inc.text] = IncludeTarget(x, inc.text)
               ELSE DOMAIN ret.res.val = {key}

\* the same with the files left out whose first include argument is key
C7_ExceptSelfInclude ==
    (/\ ret.op = "get_includes" /\ ret.res.kind = "Ok"
     /\ \A i \in 1..Len(SearchOrder) : ~IncludesItself(SearchOrder[i].entry, ret.args.key)) =>
        C7_KeyAndFirstInclude

(***************************************************************************)
(* C8 as stated: in rendered lines every include line comes before every   *)
(* .subckt line and every element line, so none lies inside a block.       *)
(***************************************************************************)
C8_IncludesOnTop ==
    Rendered =>
        \A i, j \in 1..Len(ret.res.val) :
            (/\ IsIncludeLine(ret.res.val[i])
             /\ IsSubcktLine(ret.res.val[j]) \/ IsElementLine(ret.res.val[j])) => i < j

(***************************************************************************)
(* C9: rendered lines hold, for every local sub-circuit at any depth, a    *)
(* .subckt line with its name and nodes, the nested circuit's lines and    *)
(* the matching .ends; a circuit's blocks come before its own element      *)
(* lines; .end is there only when asked for, once, as the last line.       *)
(***************************************************************************)
\* the .ends line closing a block, searched from line i with d blocks open
\* (0: there is none)
RECURSIVE BlockEnd(_, _, _)
BlockEnd(lines, i, d) ==
    IF i > Len(lines) THEN 0
    ELSE IF IsSubcktLine(lines[i]) THEN BlockEnd(lines, i + 1, d + 1)
    ELSE IF IsEndsLine(lines[i]) THEN (IF d = 1 THEN i ELSE BlockEnd(lines, i + 1, d - 1))
    ELSE BlockEnd(lines, i + 1, d)

\* the outermost blocks from line i on
RECURSIVE TopBlocks(_, _)
TopBlocks(lines, i) ==
    IF i > Len(lines) THEN <<>>
    ELSE IF IsSubcktLine(lines[i])
         THEN LET e == BlockEnd(lines, i + 1, 1)
              IN  IF e = 0 THEN <<[head |-> i, tail |-> 0]>>
                  ELSE <<[head |-> i, tail |-> e]>> \o TopBlocks(lines, e + 1)
         ELSE TopBlocks(lines, i + 1)

RECURSIVE BlockStructure(_, _, _)
BlockStructure(c, lines, close) ==
    LET blocks == TopBlocks(lines, 1)
        n == Len(lines)
        ends == IF close THEN 1 ELSE 0
        start == n - ends - Len(c.items) + 1
    IN  /\ start >= 1
        /\ Len(blocks) = Len(c.subcircuits)
        /\ \A k \in 1..Len(blocks) :
               /\ blocks[k].tail > 0
               /\ k > 1 => blocks[k].head = blocks[k - 1].tail + 1
               /\ lines[blocks[k].head] =
                      ".subckt " \o c.subcircuits[k].key \o " "
                          \o JoinStrings(c.subcircuits[k].nodes, " ")
               /\ BlockStructure(c.subcircuits[k].circuit,
                                 SubSeq(lines, blocks[k].head + 1, blocks[k].tail - 1), FALSE)
        /\ IF blocks = <<>>
           THEN \A i \in 1..(start - 1) : IsIncludeLine(lines[i])
           ELSE /\ \A i \in 1..(blocks[1].head - 1) : IsIncludeLine(lines[i])
                /\ blocks[Len(blocks)].tail = start - 1
        /\ \A i \in start..(n - ends) : IsElementLine(lines[i])
        /\ close => lines[n] = ".end"
        /\ Cardinality({i \in 1..n : IsEndLine(lines[i])}) = ends

C9_BlockStructure == Rendered => BlockStructure(circuit, ret.res.val, ret.args.close)

C9_Witness ==
    /\ Rendered /\ ret.args.close
    /\ Len(circuit.subcircuits) = 2
    /\ \E k \in 1..2 : Len(circuit.subcircuits[k].circuit.subcircuits) > 0
    /\ Len(circuit.items) = 1

(***************************************************************************)
(* C10: a second to_str right after a first, with the same argument,       *)
(* leaves the circuit as it was and returns the same lines but for the     *)
(* order of the include lines: the same lines once the include lines are   *)
(* taken out.                                                              *)
(***************************************************************************)
C10_SecondRender ==
    (ret.op = "to_str" /\ ret'.op = "to_str" /\ ret'.args.close = ret.args.close) =>
        /\ circuit' = circuit /\ fs' = fs
        /\ ret'.res.kind = ret.res.kind
        /\ ret.res.kind = "Ok" =>
               WithoutIncludes(ret'.res.val) = WithoutIncludes(ret.res.val)

C10_RenderTwice == [][C10_SecondRender]_vars

C10_Witness ==
    /\ again /\ Rendered
    /\ Len(circuit.subcircuits) = 2
    /\ Cardinality({i \in 1..Len(ret.res.val) : IsIncludeLine(ret.res.val[i])}) >= 2

====
